---- MODULE Spec2Model ----
(***************************************************************************)
(* Model of the COES downloader (downloader/coes_downloader.py and         *)
(* downloader/utils.py): the two listing crawls get_urls_prog_dia and      *)
(* get_urls_reprog_dia, the three-request get_medidores_generacion, the    *)
(* soft-failing get_demanda_ejecutado / process_demanda_ejecutado and the  *)
(* helper _raise_for_status.                                               *)
(*                                                                         *)
(* Python strings are sequences of one-character strings, so that strip,   *)
(* split, re.sub and int are computed as the code computes them.  A        *)
(* calendar date is the tuple <<year, month, day>>.                        *)
(***************************************************************************)
EXTENDS Integers, Sequences, FiniteSets, TLC

VARIABLES
    op,                 \* the operation that was called
    tree,               \* the portal's directory tree (indices into PortalPaths)
    start_date_threshold,
    pc,                 \* position of the running operation
    stop,
    year_row_ids, month_row_ids, day_row_ids, reprog_row_ids,
    year_int, month_int, date_obj,
    dowload_urls_map,
    requests,           \* every request issued so far, with the status it got
    result,             \* what the operation gave its caller
    start, end,         \* the date range asked of the data operations
    id_empresas,
    response            \* the response handed to process_demanda_ejecutado

vars == <<op, tree, start_date_threshold, pc, stop, year_row_ids,
          month_row_ids, day_row_ids, reprog_row_ids, year_int, month_int,
          date_obj, dowload_urls_map, requests, result, start, end,
          id_empresas, response>>

\* the variables of the listing crawls, and those of the data operations
crawlVars == <<tree, start_date_threshold, stop, year_row_ids, month_row_ids,
               day_row_ids, reprog_row_ids, year_int, month_int, date_obj,
               dowload_urls_map>>
fetchVars == <<start, end, id_empresas, response>>

(***************************************************************************)
(* Bounds of the model.                                                    *)
(***************************************************************************)
MaxPaths == 3
MaxRows == 2

(***************************************************************************)
(* Python str operations.                                                  *)
(***************************************************************************)
Upper == {"A","B","C","D","E","F","G","H","I","J","K","L","M",
          "N","O","P","Q","R","S","T","U","V","W","X","Y","Z"}
Lower == {"a","b","c","d","e","f","g","h","i","j","k","l","m",
          "n","o","p","q","r","s","t","u","v","w","x","y","z"}
Digits == <<"0","1","2","3","4","5","6","7","8","9">>

\* the characters of the model in code point order (str comparison)
CodePoints == <<" ", "-", "/">> \o Digits \o
    <<"A","B","C","D","E","F","G","H","I","J","K","L","M",
      "N","O","P","Q","R","S","T","U","V","W","X","Y","Z">> \o <<"_">> \o
    <<"a","b","c","d","e","f","g","h","i","j","k","l","m",
      "n","o","p","q","r","s","t","u","v","w","x","y","z">>

Ord(c) == CHOOSE i \in 1..Len(CodePoints) : CodePoints[i] = c

\* s < t for two str values
RECURSIVE StrLess(_, _)
StrLess(s, t) ==
    IF t = <<>> THEN FALSE
    ELSE IF s = <<>> THEN TRUE
    ELSE IF Head(s) = Head(t) THEN StrLess(Tail(s), Tail(t))
    ELSE Ord(Head(s)) < Ord(Head(t))

\* s.strip(ch)
RECURSIVE LStrip(_, _)
LStrip(s, ch) ==
    IF s # <<>> /\ Head(s) = ch THEN LStrip(Tail(s), ch) ELSE s

RECURSIVE RStrip(_, _)
RStrip(s, ch) ==
    IF s # <<>> /\ s[Len(s)] = ch
    THEN RStrip(SubSeq(s, 1, Len(s) - 1), ch) ELSE s

Strip(s, ch) == RStrip(LStrip(s, ch), ch)

\* s.split(sep) for a one-character sep: the list of parts
RECURSIVE Split(_, _)
Split(s, sep) ==
    IF \A i \in 1..Len(s) : s[i] # sep THEN <<s>>
    ELSE LET k == CHOOSE i \in 1..Len(s) :
                      s[i] = sep /\ \A j \in 1..(i - 1) : s[j] # sep
         IN  <<SubSeq(s, 1, k - 1)>> \o Split(SubSeq(s, k + 1, Len(s)), sep)

First(parts) == parts[1]
Last(parts) == parts[Len(parts)]

\* re.sub(r"[^A-Za-z]", "", s)
IsAlpha(c) == c \in Upper \cup Lower
ReSubNonAlpha(s) == SelectSeq(s, IsAlpha)

\* int(s): the value of a decimal digit string; ValueError for a string
\* that is empty or holds a character that is no digit
IsDigit(c) == \E i \in 1..10 : Digits[i] = c
DigitValue(c) == (CHOOSE i \in 1..10 : Digits[i] = c) - 1
IsInt(s) == s # <<>> /\ \A i \in 1..Len(s) : IsDigit(s[i])

RECURSIVE PyInt(_)
PyInt(s) ==
    IF s = <<>> THEN 0
    ELSE 10 * PyInt(SubSeq(s, 1, Len(s) - 1)) + DigitValue(s[Len(s)])

(***************************************************************************)
(* datetime.date                                                           *)
(***************************************************************************)
IsLeap(y) == (y % 4 = 0 /\ y % 100 # 0) \/ y % 400 = 0

DaysInMonth(y, m) ==
    IF m = 2 THEN (IF IsLeap(y) THEN 29 ELSE 28)
    ELSE IF m \in {4, 6, 9, 11} THEN 30 ELSE 31

\* dt.date(year, month, day) raises ValueError unless this holds
IsDate(y, m, d) ==
    /\ y \in 1..9999
    /\ m \in 1..12
    /\ d \in 1..DaysInMonth(y, m)

\* a variant of DateLess that compares the years alone
DateLessYearOnly(a, b) == a[1] < b[1]

\* a < b for two dates
DateLess(a, b) ==
    \/ a[1] < b[1]
    \/ a[1] = b[1] /\ a[2] < b[2]
    \/ a[1] = b[1] /\ a[2] = b[2] /\ a[3] < b[3]

(***************************************************************************)
(* _raise_for_status: the message of the HTTPError it raises, or the empty *)
(* message when it raises nothing.                                         *)
(***************************************************************************)
\* a variant that lets the client errors pass
ServerErrorOnly(status_code, reason, url) ==
    IF 500 <= status_code /\ status_code < 600
    THEN <<status_code, "Server Error", reason, url>>
    ELSE <<>>

\* a variant whose ranges include their upper ends
ClientErrorTo600(status_code, reason, url) ==
    IF 400 <= status_code /\ status_code <= 500
    THEN <<status_code, "Client Error", reason, url>>
    ELSE IF 500 <= status_code /\ status_code <= 600
    THEN <<status_code, "Server Error", reason, url>>
    ELSE <<>>

http_error_msg(status_code, reason, url) ==
    IF 400 <= status_code /\ status_code < 500
    THEN <<status_code, "Client Error", reason, url>>
    ELSE IF 500 <= status_code /\ status_code < 600
    THEN <<status_code, "Server Error", reason, url>>
    ELSE <<>>

Raises(status_code) == http_error_msg(status_code, "", <<>>) # <<>>

HTTPError(status_code, reason, url) ==
    [kind |-> "HTTPError", value |-> http_error_msg(status_code, reason, url)]

(***************************************************************************)
(* The portal: a directory tree served by the listing endpoint.  A tree is *)
(* given by the paths it holds, in the order the portal lists them; the    *)
(* listing of a directory is its children in order of first appearance.    *)
(* Each path carries the numbers its segments stand for.                   *)
(***************************************************************************)
Y2024 == <<"2","0","2","4">>
Y2023 == <<"2","0","2","3">>
YBad  == <<"x">>
M02   == <<"0","2","_","F">>
M01   == <<"0","1","_","E">>
M1b   == <<"1","_","b">>
D10   == <<"D"," ","1","0">>
D30   == <<"D"," ","3","0">>
D30b  == <<"d"," ","3","0">>
RA    == <<"R"," ","1","-","A">>
RB    == <<"R"," ","2","-","B">>
R7    == <<"R"," ","7">>
RRB   == <<"R"," ","R","e","p","r","o","g","r","a","m","B">>

PortalPaths == <<
    [segs |-> <<Y2024, M02, D10, RA>>,  ymd |-> <<2024, 2, 10>>],
    [segs |-> <<Y2024, M01, D30, RA>>,  ymd |-> <<2024, 1, 30>>],
    [segs |-> <<Y2024, M01, D30, RB>>,  ymd |-> <<2024, 1, 30>>],
    [segs |-> <<Y2024, M01, D10, R7>>,  ymd |-> <<2024, 1, 10>>],
    [segs |-> <<Y2024, M01, D30b, RB>>, ymd |-> <<2024, 1, 30>>],
    [segs |-> <<Y2024, M1b, D30, RRB>>, ymd |-> <<2024, 1, 30>>],
    [segs |-> <<Y2023, M02, D30, RA>>,  ymd |-> <<2023, 2, 30>>],
    [segs |-> <<Y2023, M01, D10, RB>>,  ymd |-> <<2023, 1, 10>>],
    [segs |-> <<Y2023>>,                ymd |-> <<2023>>],
    [segs |-> <<YBad>>,                 ymd |-> <<>>] >>

Thresholds == {<<2023, 1, 1>>, <<2024, 1, 15>>}

\* the trees: at most MaxPaths different paths, in any order
Trees ==
    UNION {{t \in [1..n -> 1..Len(PortalPaths)] :
                \A i, j \in 1..n : i # j => t[i] # t[j]} : n \in 0..MaxPaths}

\* params["baseDirectory"], the root of the listing
BaseDirectory(o) == IF o = "prog" THEN <<"P","D","/">> ELSE <<"R","D","/">>

RECURSIVE JoinPath(_)
JoinPath(segs) ==
    IF segs = <<>> THEN <<>>
    ELSE Head(segs) \o <<"/">> \o JoinPath(Tail(segs))

\* the id attribute of the anchor of a directory
IdOf(o, node) == BaseDirectory(o) \o JoinPath(node)

IsPrefix(node, segs) ==
    Len(node) <= Len(segs) /\ SubSeq(segs, 1, Len(node)) = node

PathSegs(t, i) == PortalPaths[t[i]].segs

Nodes(t) ==
    UNION {{SubSeq(PathSegs(t, i), 1, n) : n \in 0..Len(PathSegs(t, i))} :
              i \in 1..Len(t)}

\* the sub-directories of a directory, as the portal lists them
Children(t, node) ==
    LET under(i) == /\ IsPrefix(node, PathSegs(t, i))
                    /\ Len(PathSegs(t, i)) > Len(node)
        seg(i)   == PathSegs(t, i)[Len(node) + 1]
        first(i) == under(i) /\ \A j \in 1..(i - 1) : under(j) => seg(j) # seg(i)
        keep     == SelectSeq([i \in 1..Len(t) |-> i], first)
    IN  [k \in 1..Len(keep) |-> Append(node, seg(keep[k]))]

\* the files of a directory: day directories of the daily program and
\* version directories of the reprogram hold files
FileNames(node) ==
    IF Len(node) = 3 THEN (IF node[3] = D10 THEN <<"a", "b">> ELSE <<"a">>)
    ELSE IF Len(node) = 4 THEN (IF node[4] = RA THEN <<"a", "b">> ELSE <<"a">>)
    ELSE <<>>

NodeAt(o, t, url) ==
    IF url = BaseDirectory(o) THEN <<>>
    ELSE CHOOSE node \in Nodes(t) : IdOf(o, node) = url

\* bs.find_all("a", class_="infolist-link"): the id attributes, in page order
Anchors(o, t, url) ==
    LET ch == Children(t, NodeAt(o, t, url))
    IN  [k \in 1..Len(ch) |-> IdOf(o, ch[k])]

\* bs.find_all("input", {"name": "cbSelect"}): the value attributes
Inputs(o, t, url) ==
    LET names == FileNames(NodeAt(o, t, url))
    IN  [k \in 1..Len(names) |-> url \o <<names[k]>>]

(***************************************************************************)
(* The crawl's parsing and sorting.                                        *)
(***************************************************************************)
\* row.attrs["id"].strip("/").split("/")[-1]
LastSegment(id) == Last(Split(Strip(id, "/"), "/"))

YearToken(id) == LastSegment(id)
MonthToken(id) == First(Split(LastSegment(id), "_"))
DayToken(id) == Last(Split(LastSegment(id), " "))

\* a variant that keeps the letters of the whole segment
ReprogVersionAllLetters(id) == ReSubNonAlpha(LastSegment(id))


\* re.sub(r"[^A-Za-z]", "", id.strip("/").split("/")[-1].split(" ")[-1])
ReprogVersion(id) == ReSubNonAlpha(Last(Split(LastSegment(id), " ")))

\* sorted(rows, key=lambda x: x[0], reverse=True): descending and stable;
\* less[i][j] tells whether the key of row i is less than the key of row j
SortedDescending(rows, less) ==
    LET n == Len(rows)
        pos(i) == 1 + Cardinality({j \in 1..n :
                        \/ less[i][j]
                        \/ rows[j][1] = rows[i][1] /\ j < i})
    IN  [p \in 1..n |-> rows[CHOOSE i \in 1..n : pos(i) = p]]

IntLess(rows) ==
    [i \in 1..Len(rows) |-> [j \in 1..Len(rows) |-> rows[i][1] < rows[j][1]]]
StrKeyLess(rows) ==
    [i \in 1..Len(rows) |-> [j \in 1..Len(rows) |-> StrLess(rows[i][1], rows[j][1])]]

\* the (number, id) rows of a listing; ValueError if a token is no number
YearTokens(ids) == [k \in 1..Len(ids) |-> YearToken(ids[k])]
MonthTokens(ids) == [k \in 1..Len(ids) |-> MonthToken(ids[k])]
DayTokens(ids) == [k \in 1..Len(ids) |-> DayToken(ids[k])]
ParsesAll(tokens) == \A k \in 1..Len(tokens) : IsInt(tokens[k])
IntRows(ids, tokens) == [k \in 1..Len(ids) |-> <<PyInt(tokens[k]), ids[k]>>]
SortedIntRows(ids, tokens) ==
    SortedDescending(IntRows(ids, tokens), IntLess(IntRows(ids, tokens)))

\* variants: the month rows left in page order, the day rows without
\* their first row
MonthRowsUnsorted(ids) == IntRows(ids, MonthTokens(ids))
DayRowsSkipFirst(ids) ==
    LET rows == SortedIntRows(ids, DayTokens(ids))
    IN  IF rows = <<>> THEN rows ELSE Tail(rows)

year_rows(ids) == SortedIntRows(ids, YearTokens(ids))
month_rows(ids) == SortedIntRows(ids, MonthTokens(ids))
day_rows(ids) == SortedIntRows(ids, DayTokens(ids))
reprog_rows(ids) ==
    LET rows == [k \in 1..Len(ids) |-> <<ReprogVersion(ids[k]), ids[k]>>]
    IN  SortedDescending(rows, StrKeyLess(rows))

\* download_url.split("/")[-1]
file_name(download_url) == Last(Split(download_url, "/"))

ValueError == [kind |-> "ValueError", value |-> <<>>]
NoResult == [kind |-> "none", value |-> <<>>]

\* the statuses the listing endpoint answers with
ListingStatuses == {200, 404, 500}

Request(level, url, status, key) ==
    [level |-> level, url |-> url, status |-> status, key |-> key]

(***************************************************************************)
(* get_urls_prog_dia and get_urls_reprog_dia, one action per listing       *)
(* request and one per loop exit.  op tells the two apart: the reprogram   *)
(* crawl has one more level.                                               *)
(***************************************************************************)
Raise(exc) ==
    /\ pc' = "raised"
    /\ result' = exc

\* a variant that records the first file of a directory alone
EntriesFirstOnly(o, date, version, urls) ==
    IF urls = <<>> THEN <<>>
    ELSE IF o = "prog" THEN <<<<date, file_name(urls[1]), urls[1]>>>>
    ELSE <<<<date, version, file_name(urls[1]), urls[1]>>>>

\* the entries of one listed directory, tagged with its date (and version)
Entries(o, date, version, urls) ==
    [k \in 1..Len(urls) |->
        IF o = "prog" THEN <<date, file_name(urls[k]), urls[k]>>
        ELSE <<date, version, file_name(urls[k]), urls[k]>>]

\* the root listing and the year rows
PostRoot ==
    /\ pc = "root"
    /\ \E status \in ListingStatuses :
        LET url == BaseDirectory(op)
            ids == Anchors(op, tree, url)
        IN  /\ requests' = Append(requests, Request("root", url, status, <<>>))
            /\ IF Raises(status)
               THEN /\ Raise(HTTPError(status, "", url))
                    /\ UNCHANGED year_row_ids
               ELSE IF ~ParsesAll(YearTokens(ids))
               THEN /\ Raise(ValueError)
                    /\ UNCHANGED year_row_ids
               ELSE /\ year_row_ids' = year_rows(ids)
                    /\ pc' = "year"
                    /\ UNCHANGED result
    /\ UNCHANGED <<op, tree, start_date_threshold, stop, month_row_ids,
                   day_row_ids, reprog_row_ids, year_int, month_int, date_obj,
                   dowload_urls_map, fetchVars>>

\* one iteration of the year loop: the listing of a year, and its month rows
PostYear ==
    /\ pc = "year"
    /\ year_row_ids # <<>> /\ ~stop
    /\ \E status \in ListingStatuses :
        LET row == Head(year_row_ids)
            ids == Anchors(op, tree, row[2])
        IN  /\ requests' =
                  Append(requests, Request("year", row[2], status, <<row[1]>>))
            /\ year_int' = row[1]
            /\ year_row_ids' = Tail(year_row_ids)
            /\ IF Raises(status)
               THEN /\ Raise(HTTPError(status, "", row[2]))
                    /\ UNCHANGED month_row_ids
               ELSE IF ~ParsesAll(MonthTokens(ids))
               THEN /\ Raise(ValueError)
                    /\ UNCHANGED month_row_ids
               ELSE /\ month_row_ids' = month_rows(ids)
                    /\ pc' = "month"
                    /\ UNCHANGED result
    /\ UNCHANGED <<op, tree, start_date_threshold, stop, day_row_ids,
                   reprog_row_ids, month_int, date_obj, dowload_urls_map,
                   fetchVars>>

\* the year loop is over (or broken by stop): return dowload_urls_map
ReturnUrls ==
    /\ pc = "year"
    /\ year_row_ids = <<>> \/ stop
    /\ pc' = "done"
    /\ result' = [kind |-> "list", value |-> dowload_urls_map]
    /\ UNCHANGED <<op, tree, start_date_threshold, stop, year_row_ids,
                   month_row_ids, day_row_ids, reprog_row_ids, year_int,
                   month_int, date_obj, dowload_urls_map, requests, fetchVars>>

\* one iteration of the month loop: the listing of a month, and its day rows
PostMonth ==
    /\ pc = "month"
    /\ month_row_ids # <<>> /\ ~stop
    /\ \E status \in ListingStatuses :
        LET row == Head(month_row_ids)
            ids == Anchors(op, tree, row[2])
        IN  /\ requests' = Append(requests,
                  Request("month", row[2], status, <<year_int, row[1]>>))
            /\ month_int' = row[1]
            /\ month_row_ids' = Tail(month_row_ids)
            /\ IF Raises(status)
               THEN /\ Raise(HTTPError(status, "", row[2]))
                    /\ UNCHANGED day_row_ids
               ELSE IF ~ParsesAll(DayTokens(ids))
               THEN /\ Raise(ValueError)
                    /\ UNCHANGED day_row_ids
               ELSE /\ day_row_ids' = day_rows(ids)
                    /\ pc' = "day"
                    /\ UNCHANGED result
    /\ UNCHANGED <<op, tree, start_date_threshold, stop, year_row_ids,
                   reprog_row_ids, year_int, date_obj, dowload_urls_map,
                   fetchVars>>

\* the month loop is over (or broken by stop): back to the year loop
EndMonths ==
    /\ pc = "month"
    /\ month_row_ids = <<>> \/ stop
    /\ pc' = "year"
    /\ UNCHANGED <<op, tree, start_date_threshold, stop, year_row_ids,
                   month_row_ids, day_row_ids, reprog_row_ids, year_int,
                   month_int, date_obj, dowload_urls_map, requests, result,
                   fetchVars>>

\* one iteration of the day loop: the listing of a day, its date, the stop
\* rule, and then the day's files (program) or its version rows (reprogram)
PostDay ==
    /\ pc = "day"
    /\ day_row_ids # <<>> /\ ~stop
    /\ \E status \in ListingStatuses :
        LET row  == Head(day_row_ids)
            date == <<year_int, month_int, row[1]>>
        IN  /\ requests' = Append(requests, Request("day", row[2], status, date))
            /\ day_row_ids' = Tail(day_row_ids)
            /\ IF Raises(status)
               THEN /\ Raise(HTTPError(status, "", row[2]))
                    /\ UNCHANGED <<stop, date_obj, reprog_row_ids,
                                   dowload_urls_map>>
               ELSE IF ~IsDate(year_int, month_int, row[1])
               THEN /\ Raise(ValueError)
                    /\ UNCHANGED <<stop, date_obj, reprog_row_ids,
                                   dowload_urls_map>>
               ELSE IF DateLess(date, start_date_threshold)
               THEN /\ date_obj' = date
                    /\ stop' = TRUE
                    /\ pc' = "month"
                    /\ UNCHANGED <<result, reprog_row_ids, dowload_urls_map>>
               ELSE IF op = "prog"
               THEN /\ date_obj' = date
                    /\ dowload_urls_map' = dowload_urls_map \o
                          Entries(op, date, <<>>, Inputs(op, tree, row[2]))
                    /\ pc' = "day"
                    /\ UNCHANGED <<result, stop, reprog_row_ids>>
               ELSE /\ date_obj' = date
                    /\ reprog_row_ids' = reprog_rows(Anchors(op, tree, row[2]))
                    /\ pc' = "reprog"
                    /\ UNCHANGED <<result, stop, dowload_urls_map>>
    /\ UNCHANGED <<op, tree, start_date_threshold, year_row_ids,
                   month_row_ids, year_int, month_int, fetchVars>>

\* the day loop is over: back to the month loop
EndDays ==
    /\ pc = "day"
    /\ day_row_ids = <<>> \/ stop
    /\ pc' = "month"
    /\ UNCHANGED <<op, tree, start_date_threshold, stop, year_row_ids,
                   month_row_ids, day_row_ids, reprog_row_ids, year_int,
                   month_int, date_obj, dowload_urls_map, requests, result,
                   fetchVars>>

\* one iteration of the version loop: the listing of a version and its files
PostReprog ==
    /\ pc = "reprog"
    /\ reprog_row_ids # <<>> /\ ~stop
    /\ \E status \in ListingStatuses :
        LET row == Head(reprog_row_ids)
        IN  /\ requests' = Append(requests,
                  Request("reprog", row[2], status, date_obj))
            /\ reprog_row_ids' = Tail(reprog_row_ids)
            /\ IF Raises(status)
               THEN /\ Raise(HTTPError(status, "", row[2]))
                    /\ UNCHANGED dowload_urls_map
               ELSE /\ dowload_urls_map' = dowload_urls_map \o
                          Entries(op, date_obj, row[1], Inputs(op, tree, row[2]))
                    /\ pc' = "reprog"
                    /\ UNCHANGED result
    /\ UNCHANGED <<op, tree, start_date_threshold, stop, year_row_ids,
                   month_row_ids, day_row_ids, year_int, month_int, date_obj,
                   fetchVars>>

\* the version loop is over: back to the day loop
EndReprogs ==
    /\ pc = "reprog"
    /\ reprog_row_ids = <<>> \/ stop
    /\ pc' = "day"
    /\ UNCHANGED <<op, tree, start_date_threshold, stop, year_row_ids,
                   month_row_ids, day_row_ids, reprog_row_ids, year_int,
                   month_int, date_obj, dowload_urls_map, requests, result,
                   fetchVars>>

Init ==
    /\ op \in {"prog", "reprog"}
    /\ tree \in Trees
    /\ start_date_threshold \in Thresholds
    /\ pc = "root"
    /\ stop = FALSE
    /\ year_row_ids = <<>>
    /\ month_row_ids = <<>>
    /\ day_row_ids = <<>>
    /\ reprog_row_ids = <<>>
    /\ year_int = 0
    /\ month_int = 0
    /\ date_obj = <<>>
    /\ dowload_urls_map = <<>>
    /\ requests = <<>>
    /\ result = NoResult
    /\ start = <<>>
    /\ end = <<>>
    /\ id_empresas = <<>>
    /\ response = <<>>

Next ==
    \/ PostRoot
    \/ PostYear
    \/ ReturnUrls
    \/ PostMonth
    \/ EndMonths
    \/ PostDay
    \/ EndDays
    \/ PostReprog
    \/ EndReprogs

Spec == Init /\ [][Next]_vars

(***************************************************************************)
(* What the portal tree holds, read off PortalPaths and not through the    *)
(* crawl's parsing: the reference the crawl's results are compared with.   *)
(***************************************************************************)
\* a date as one number, for comparing dates
DayNumber(date) == date[1] * 10000 + date[2] * 100 + date[3]
Earlier(a, b) == DayNumber(a) < DayNumber(b)

\* the number a directory's last segment stands for
NumberOf(node) ==
    LET i == CHOOSE k \in 1..Len(PortalPaths) : IsPrefix(node, PortalPaths[k].segs)
    IN  PortalPaths[i].ymd[Len(node)]

DayNodes(t) == {node \in Nodes(t) : Len(node) = 3}
ReprogNodes(t) == {node \in Nodes(t) : Len(node) = 4}

DateOfNode(node) ==
    <<NumberOf(SubSeq(node, 1, 1)), NumberOf(SubSeq(node, 1, 2)),
      NumberOf(SubSeq(node, 1, 3))>>

\* every segment of the tree is a number and every day a calendar date
AllDatesValid(t) ==
    /\ \A node \in Nodes(t) : Len(node) = 1 => node # <<YBad>>
    /\ \A node \in DayNodes(t) :
         LET d == DateOfNode(node) IN IsDate(d[1], d[2], d[3])

\* no two entries of one listing of years, months or days stand for the
\* same number
NoTies(t) ==
    \A a, b \in Nodes(t) :
        (/\ a # b
         /\ Len(a) = Len(b)
         /\ Len(a) \in 1..3
         /\ SubSeq(a, 1, Len(a) - 1) = SubSeq(b, 1, Len(b) - 1))
        => NumberOf(a) # NumberOf(b)

\* no two year entries, and no two month entries of one year, stand for the
\* same number
NoYearOrMonthTies(t) ==
    \A a, b \in Nodes(t) :
        (/\ a # b
         /\ Len(a) = Len(b)
         /\ Len(a) \in 1..2
         /\ SubSeq(a, 1, Len(a) - 1) = SubSeq(b, 1, Len(b) - 1))
        => NumberOf(a) # NumberOf(b)

\* the directories whose files a complete crawl records
LeafNodes(o, t) == IF o = "prog" THEN DayNodes(t) ELSE ReprogNodes(t)

\* <<date, url>> of every file of every day on or after the threshold
ExpectedFiles(o, t, threshold) ==
    UNION {{<<DateOfNode(node), IdOf(o, node) \o <<FileNames(node)[k]>>>> :
                k \in 1..Len(FileNames(node))} :
           node \in {n \in LeafNodes(o, t) :
                        ~Earlier(DateOfNode(n), threshold)}}

EntryDate(e) == e[1]
EntryUrl(e) == e[Len(e)]
EntryVersion(e) == e[2]

Returned == pc = "done" /\ result.kind = "list"

IsErrorStatus(status) == status \in 400..599

(***************************************************************************)
(* C1: in both crawls, for every threshold and every portal tree, no entry *)
(* recorded (and so none returned) has a date earlier than the threshold.  *)
(***************************************************************************)
C1_NoEntryBeforeThreshold ==
    /\ \A k \in 1..Len(dowload_urls_map) :
         ~Earlier(EntryDate(dowload_urls_map[k]), start_date_threshold)
    /\ \A k \in 1..Len(result.value) :
         result.kind = "list"
            => ~Earlier(EntryDate(result.value[k]), start_date_threshold)

\* a crawl that crossed the threshold returned the entries before it
C1_Witness ==
    /\ Returned
    /\ stop
    /\ result.value # <<>>
    /\ \E node \in DayNodes(tree) : Earlier(DateOfNode(node), start_date_threshold)

(***************************************************************************)
(* C2: once the listing of a day whose date is earlier than the threshold  *)
(* has been resolved, that request is the last one of the crawl (no later  *)
(* day, month or year is queried), stop is set and no entry carries that   *)
(* date.                                                                   *)
(***************************************************************************)
Breached(r) ==
    /\ r.level = "day"
    /\ ~IsErrorStatus(r.status)
    /\ IsDate(r.key[1], r.key[2], r.key[3])
    /\ Earlier(r.key, start_date_threshold)

\* C2: a resolved day before the threshold is the last request of the crawl
C2_BreachEndsCrawl ==
    \A i \in 1..Len(requests) :
        Breached(requests[i]) =>
            /\ i = Len(requests)
            /\ stop
            /\ pc \in {"month", "year", "done"}
            /\ \A k \in 1..Len(dowload_urls_map) :
                 EntryDate(dowload_urls_map[k]) # requests[i].key

\* threshold 2024-01-15, years 2024 and 2023 listed, a day of 2024 before
\* the threshold: the crawl returned and 2023 was never queried
C2_Witness ==
    /\ Returned
    /\ start_date_threshold = <<2024, 1, 15>>
    /\ <<Y2024>> \in Nodes(tree) /\ <<Y2023>> \in Nodes(tree)
    /\ Breached(requests[Len(requests)])
    /\ \A i \in 1..Len(requests) :
         requests[i].level = "root" \/ requests[i].key[1] # 2023

(***************************************************************************)
(* C3: a listing response with a 4xx or 5xx status, at any level, ends the *)
(* crawl with an error at that request: it is the last request, and no     *)
(* list is returned.                                                       *)
(***************************************************************************)
C3_ErrorStatusAborts ==
    \A i \in 1..Len(requests) :
        IsErrorStatus(requests[i].status) =>
            /\ i = Len(requests)
            /\ pc = "raised"
            /\ result.kind = "HTTPError"

\* an error at the deepest level, after entries had been recorded
C3_Witness ==
    /\ pc = "raised"
    /\ result.kind = "HTTPError"
    /\ requests[Len(requests)].level = "reprog"
    /\ dowload_urls_map # <<>>

(***************************************************************************)
(* C4: a tree with N years, M months in each year and D days in each       *)
(* month, no date of which is earlier than the threshold.                  *)
(***************************************************************************)
YearCount(t) == Len(Children(t, <<>>))
MonthCount(t) ==
    IF YearCount(t) = 0 THEN 0 ELSE Len(Children(t, Children(t, <<>>)[1]))
DayCount(t) ==
    IF MonthCount(t) = 0 THEN 0
    ELSE Len(Children(t, Children(t, Children(t, <<>>)[1])[1]))

Uniform(t) ==
    /\ \A node \in Nodes(t) :
         /\ Len(node) = 1 => Len(Children(t, node)) = MonthCount(t)
         /\ Len(node) = 2 => Len(Children(t, node)) = DayCount(t)

NoBreach(t, threshold) ==
    /\ AllDatesValid(t)
    /\ \A node \in DayNodes(t) : ~Earlier(DateOfNode(node), threshold)

VersionCount(o, t) == IF o = "prog" THEN 0 ELSE Cardinality(ReprogNodes(t))

LevelRequests(t) ==
    YearCount(t) + YearCount(t) * MonthCount(t)
        + YearCount(t) * MonthCount(t) * DayCount(t)

\* C4 as claimed: such a crawl issues exactly N + N*M + N*M*D listing
\* requests (plus one per reprogram version) in total
C4_AsClaimed ==
    (Returned /\ Uniform(tree) /\ NoBreach(tree, start_date_threshold))
        => Len(requests) = LevelRequests(tree) + VersionCount(op, tree)

\* C4 amended: the root listing is a request too, so a crawl that returns
\* issued exactly 1 + N + N*M + N*M*D listing requests (plus one per
\* reprogram version)
C4_RequestCount ==
    (Returned /\ Uniform(tree) /\ NoBreach(tree, start_date_threshold))
        => Len(requests) = 1 + LevelRequests(tree) + VersionCount(op, tree)

\* a returned reprogram crawl of a tree with one year, one month, two days
C4_Witness ==
    /\ Returned /\ Uniform(tree) /\ NoBreach(tree, start_date_threshold)
    /\ op = "reprog"
    /\ YearCount(tree) = 1 /\ MonthCount(tree) = 1 /\ DayCount(tree) = 2
    /\ VersionCount(op, tree) >= 2

(***************************************************************************)
(* C5: the version label recorded with a reprogram entry.                  *)
(***************************************************************************)
\* the final path segment of the directory an entry's file was listed in
EntrySegment(e) ==
    LET dir == NodeAt(op, tree, SubSeq(EntryUrl(e), 1, Len(EntryUrl(e)) - 1))
    IN  dir[Len(dir)]

\* C5 as claimed: for the segment "R ReprogramB" the label is "B", and for
\* a segment with no trailing letters ("R 7") it is the empty string
C5_AsClaimed ==
    \A k \in 1..Len(dowload_urls_map) :
        LET e == dowload_urls_map[k]
        IN  op = "reprog" =>
              /\ EntrySegment(e) = RRB => EntryVersion(e) = <<"B">>
              /\ EntrySegment(e) = R7 => EntryVersion(e) = <<>>

\* C5 amended: the label is the letters of the last space-separated token
\* of the segment: "ReprogramB" for "R ReprogramB", "B" for "R 2-B", "A" for
\* "R 1-A", and the empty string for "R 7", whose last token has no letter
C5_VersionLabel ==
    \A k \in 1..Len(dowload_urls_map) :
        LET e == dowload_urls_map[k]
        IN  op = "reprog" =>
              /\ EntrySegment(e) = RRB =>
                   EntryVersion(e) = <<"R","e","p","r","o","g","r","a","m","B">>
              /\ EntrySegment(e) = RB => EntryVersion(e) = <<"B">>
              /\ EntrySegment(e) = RA => EntryVersion(e) = <<"A">>
              /\ EntrySegment(e) = R7 => EntryVersion(e) = <<>>

\* a returned list with an entry of "R ReprogramB" and one of "R 7"
C5_Witness ==
    /\ Returned /\ op = "reprog"
    /\ \E k \in 1..Len(result.value) : EntrySegment(result.value[k]) = RRB
    /\ \E k \in 1..Len(result.value) : EntrySegment(result.value[k]) = R7

(***************************************************************************)
(* C6: the order of the returned list.                                     *)
(***************************************************************************)
NewestFirst(list) ==
    \A i, j \in 1..Len(list) :
        i < j =>
            /\ ~Earlier(EntryDate(list[i]), EntryDate(list[j]))
            /\ (op = "reprog" /\ EntryDate(list[i]) = EntryDate(list[j]))
                 => ~StrLess(EntryVersion(list[i]), EntryVersion(list[j]))

\* C6 as claimed: every returned list is newest-first, and within a date
\* the version labels do not increase
C6_AsClaimed == Returned => NewestFirst(result.value)

\* C6 amended: the same, for a portal tree in which no two entries of one
\* listing of years, months or days stand for the same number
C6_NewestFirst == (Returned /\ NoTies(tree)) => NewestFirst(result.value)

\* a returned list of a tree without ties that the portal lists oldest
\* first, holding two dates and two versions of one date
C6_Witness ==
    /\ Returned /\ NoTies(tree) /\ op = "reprog"
    /\ tree = <<2, 3, 1>>
    /\ \E i, j \in 1..Len(result.value) :
         Earlier(EntryDate(result.value[j]), EntryDate(result.value[i]))
    /\ \E i, j \in 1..Len(result.value) :
         /\ EntryDate(result.value[j]) = EntryDate(result.value[i])
         /\ StrLess(EntryVersion(result.value[j]), EntryVersion(result.value[i]))

(***************************************************************************)
(* C10: completeness of the returned list.                                 *)
(***************************************************************************)
Complete(list) ==
    /\ {<<EntryDate(list[k]), EntryUrl(list[k])>> : k \in 1..Len(list)}
           = ExpectedFiles(op, tree, start_date_threshold)
    /\ \A i, j \in 1..Len(list) : i # j => list[i] # list[j]

\* C10 as claimed: when every listed date is valid, the returned list holds
\* exactly once every file of every listed day (and version) on or after
\* the threshold
C10_AsClaimed == (Returned /\ AllDatesValid(tree)) => Complete(result.value)

\* C10 amended: the same, for a portal tree in which no two year entries
\* and no two month entries of one year stand for the same number
C10_Complete ==
    (Returned /\ AllDatesValid(tree) /\ NoYearOrMonthTies(tree))
        => Complete(result.value)

\* a crawl that stopped at the threshold and returned files of two days,
\* from a tree the portal lists oldest first
C10_Witness ==
    /\ Returned /\ AllDatesValid(tree) /\ NoYearOrMonthTies(tree) /\ stop
    /\ tree = <<4, 2, 1>>
    /\ Cardinality(ExpectedFiles(op, tree, start_date_threshold)) >= 3

(***************************************************************************)
(* The data operations: get_medidores_generacion, get_demanda_ejecutado    *)
(* and process_demanda_ejecutado.                                          *)
(***************************************************************************)
\* the statuses and reason phrases the data endpoints answer with
FetchStatuses == {200, 399, 400, 499, 500, 599, 600}
Reasons == {"", "Gone"}

UrlEmpresas == "https://www.coes.org.pe/Portal/mediciones/medidoresgeneracion/empresas"
UrlExportar == "https://www.coes.org.pe/Portal/mediciones/medidoresgeneracion/exportar"
UrlDescargar == "https://www.coes.org.pe/Portal/mediciones/medidoresgeneracion/descargar"
UrlDemanda == "https://www.coes.org.pe/Portal/portalinformacion/Demanda"

\* date.strftime("%d/%m/%Y")
Pad(n, width) == [k \in 1..width |-> Digits[((n \div (10 ^ (width - k))) % 10) + 1]]
StrftimeDMY(date) ==
    Pad(date[3], 2) \o <<"/">> \o Pad(date[2], 2) \o <<"/">> \o Pad(date[1], 4)

\* ",".join(ids)
RECURSIVE JoinComma(_)
JoinComma(ids) ==
    IF ids = <<>> THEN <<>>
    ELSE IF Len(ids) = 1 THEN ids[1]
    ELSE ids[1] \o <<",">> \o JoinComma(Tail(ids))

FetchRequest(name, method, url, params, status, reason) ==
    [name |-> name, method |-> method, url |-> url, params |-> params,
     status |-> status, reason |-> reason]

\* the empresas page: with or without <select id="cbEmpresas">, whose
\* options carry the company ids
EmpresasPages ==
    {[select |-> FALSE, options |-> <<>>],
     [select |-> TRUE, options |-> <<>>],
     [select |-> TRUE, options |-> <<<<"7">>>>],
     [select |-> TRUE, options |-> <<<<"7">>, <<"1", "2">>>>]}

\* the staged CSV: with or without the fechahora column; each row has a
\* fechahora cell that matches "%d/%m/%Y %H:%M" or not, and one more cell
CsvCells == {"12.5", "", "abc"}
CsvRows == [fechahora_ok : BOOLEAN, cell : CsvCells]
CsvTexts ==
    [fechahora : BOOLEAN,
     rows : UNION {[1..n -> CsvRows] : n \in 0..MaxRows}]

\* pd.to_numeric(cell, errors="coerce"): the number in tenths, as <<n>>,
\* or NaN for a cell that is no number
NaN == <<>>
to_numeric(cell) == IF cell = "12.5" THEN <<125>> ELSE NaN

\* the frame get_medidores_generacion returns, or the exception of the
\* CSV processing
medidores_frame(csv) ==
    IF ~csv.fechahora THEN [kind |-> "KeyError", value |-> <<>>]
    ELSE IF \E k \in 1..Len(csv.rows) : ~csv.rows[k].fechahora_ok
    THEN ValueError
    ELSE LET numeric == [k \in 1..Len(csv.rows) |-> to_numeric(csv.rows[k].cell)]
         IN  [kind |-> "DataFrame",
              value |-> SelectSeq(numeric, LAMBDA v : v # NaN)]

PostEmpresas ==
    /\ op = "medidores" /\ pc = "empresas"
    /\ \E status \in FetchStatuses, reason \in Reasons, page \in EmpresasPages :
        /\ requests' = Append(requests,
              FetchRequest("empresas", "POST", UrlEmpresas,
                           [tiposEmpresa |-> 3], status, reason))
        /\ IF Raises(status)
           THEN /\ Raise(HTTPError(status, reason, UrlEmpresas))
                /\ UNCHANGED id_empresas
           ELSE IF ~page.select
           THEN /\ Raise([kind |-> "AttributeError", value |-> <<>>])
                /\ UNCHANGED id_empresas
           ELSE /\ id_empresas' = page.options
                /\ pc' = "exportar"
                /\ UNCHANGED result
    /\ UNCHANGED <<op, crawlVars, start, end, response>>

PostExportar ==
    /\ op = "medidores" /\ pc = "exportar"
    /\ \E status \in FetchStatuses, reason \in Reasons :
        /\ requests' = Append(requests,
              FetchRequest("exportar", "POST", UrlExportar,
                           [fechaInicial |-> StrftimeDMY(start),
                            fechaFinal |-> StrftimeDMY(end),
                            empresas |-> JoinComma(id_empresas),
                            central |-> 1, parametros |-> 1, tipo |-> 3],
                           status, reason))
        /\ IF Raises(status)
           THEN Raise(HTTPError(status, reason, UrlExportar))
           ELSE pc' = "descargar" /\ UNCHANGED result
    /\ UNCHANGED <<op, crawlVars, fetchVars>>

GetDescargar ==
    /\ op = "medidores" /\ pc = "descargar"
    /\ \E status \in FetchStatuses, reason \in Reasons, csv \in CsvTexts :
        /\ requests' = Append(requests,
              FetchRequest("descargar", "GET", UrlDescargar,
                           [tipo |-> 3], status, reason))
        /\ IF Raises(status)
           THEN Raise(HTTPError(status, reason, UrlDescargar))
           ELSE LET frame == medidores_frame(csv)
                IN  /\ result' = frame
                    /\ pc' = IF frame.kind = "DataFrame" THEN "done" ELSE "raised"
    /\ UNCHANGED <<op, crawlVars, fetchVars>>

(***************************************************************************)
(* Executed demand.  A body is JSON or not, has a Data list or not; a      *)
(* record of Data has a Fecha string or none.                              *)
(***************************************************************************)
FechaYmd == <<"2","0","2","4","/","0","1","/","1","5"," ","0","0",":","3","0">>
FechaDmy == <<"1","5","/","0","1","/","2","0","2","4"," ","0","0",":","3","0">>
FechaGap == <<"1","9","9","4","/","0","1","/","0","1"," ","0","0",":","3","0">>

DemandaRecords ==
    {[has_fecha |-> FALSE, Fecha |-> <<>>]} \cup
    {[has_fecha |-> TRUE, Fecha |-> f] : f \in {FechaYmd, FechaDmy, FechaGap}}

DemandaBodies ==
    {[json |-> FALSE, has_data |-> FALSE, Data |-> <<>>],
     [json |-> TRUE, has_data |-> FALSE, Data |-> <<>>]} \cup
    {[json |-> TRUE, has_data |-> TRUE, Data |-> d] :
        d \in UNION {[1..n -> DemandaRecords] : n \in 0..MaxRows}}

\* what session.post gives: a response, or an exception of the transport
Transports == {"response", "Timeout", "ConnectionError"}

\* pd.to_datetime(s, format="%Y/%m/%d %H:%M"): the fields of s, or <<>>
\* where it raises ValueError
Digits1or2(s) == Len(s) \in 1..2 /\ IsInt(s)
strptime_ymd_hm(s) ==
    LET halves == Split(s, " ")
        ymd    == Split(halves[1], "/")
        hm     == Split(halves[2], ":")
    IN  IF Len(halves) # 2 THEN <<>>
        ELSE IF Len(ymd) # 3 \/ Len(hm) # 2 THEN <<>>
        ELSE IF ~(/\ Len(ymd[1]) = 4 /\ IsInt(ymd[1])
                  /\ Digits1or2(ymd[2]) /\ Digits1or2(ymd[3])
                  /\ Digits1or2(hm[1]) /\ Digits1or2(hm[2])) THEN <<>>
        ELSE IF ~(/\ IsDate(PyInt(ymd[1]), PyInt(ymd[2]), PyInt(ymd[3]))
                  /\ PyInt(hm[1]) \in 0..23 /\ PyInt(hm[2]) \in 0..59) THEN <<>>
        ELSE <<PyInt(ymd[1]), PyInt(ymd[2]), PyInt(ymd[3]),
               PyInt(hm[1]), PyInt(hm[2])>>

\* a variant for which every wall-clock time exists
LocalizeAlways(ts) == TRUE

\* Series.dt.tz_localize(ZoneInfo("America/Lima")) raises for a wall-clock
\* time the zone skipped or repeated: Peru put its clocks forward at 00:00
\* of 1 January and back at 00:00 of 1 April in 1986, 1987, 1990 and 1994
\* (the timestamps of the model are of 1994 and 2024)
tz_localize_ok(ts) ==
    ~(/\ ts[1] \in {1986, 1987, 1990, 1994}
      /\ \/ ts[2] = 1 /\ ts[3] = 1 /\ ts[4] = 0
         \/ ts[2] = 3 /\ ts[3] = 31 /\ ts[4] = 23)

None == [kind |-> "None", value |-> <<>>]

\* get_demanda_ejecutado: every exception of the request or of
\* _raise_for_status is caught and gives None
PostDemanda ==
    /\ op = "get_demanda" /\ pc = "demanda"
    /\ \E transport \in Transports, status \in FetchStatuses,
          reason \in Reasons, body \in DemandaBodies :
        LET answered == transport = "response"
            res == [status_code |-> status, body |-> body]
        IN  /\ requests' = Append(requests,
                  FetchRequest(transport, "POST", UrlDemanda,
                               [fechaInicial |-> StrftimeDMY(start),
                                fechaFinal |-> StrftimeDMY(end)],
                               IF answered THEN status ELSE 0,
                               IF answered THEN reason ELSE ""))
            /\ result' = IF ~answered \/ Raises(status) THEN None
                         ELSE [kind |-> "Response", value |-> res]
            /\ pc' = "done"
    /\ UNCHANGED <<op, crawlVars, fetchVars>>

\* the frame process_demanda_ejecutado builds, every exception on the way
\* giving None: response.json(), ["Data"], df["Fecha"], pd.to_datetime and
\* tz_localize
FechaColumn(body) ==
    SelectSeq(body.Data, LAMBDA rec : rec.has_fecha)

process_frame(body) ==
    IF ~body.json THEN None
    ELSE IF ~body.has_data THEN None
    ELSE IF FechaColumn(body) = <<>> THEN None
    ELSE IF \E k \in 1..Len(body.Data) :
               body.Data[k].has_fecha /\ strptime_ymd_hm(body.Data[k].Fecha) = <<>>
    THEN None
    ELSE IF \E k \in 1..Len(body.Data) :
               /\ body.Data[k].has_fecha
               /\ ~tz_localize_ok(strptime_ymd_hm(body.Data[k].Fecha))
    THEN None
    ELSE [kind |-> "DataFrame",
          value |-> [k \in 1..Len(body.Data) |->
                        IF body.Data[k].has_fecha
                        THEN <<strptime_ymd_hm(body.Data[k].Fecha), "America/Lima">>
                        ELSE <<"NaT">>]]

ProcessDemanda ==
    /\ op = "process_demanda" /\ pc = "process"
    /\ result' = process_frame(response.body)
    /\ pc' = "done"
    /\ UNCHANGED <<op, crawlVars, fetchVars, requests>>

InitCrawlIdle ==
    /\ tree = <<>>
    /\ start_date_threshold = <<>>
    /\ stop = FALSE
    /\ year_row_ids = <<>>
    /\ month_row_ids = <<>>
    /\ day_row_ids = <<>>
    /\ reprog_row_ids = <<>>
    /\ year_int = 0
    /\ month_int = 0
    /\ date_obj = <<>>
    /\ dowload_urls_map = <<>>

InitFetch ==
    /\ InitCrawlIdle
    /\ op \in {"medidores", "get_demanda", "process_demanda"}
    /\ pc = CASE op = "medidores" -> "empresas"
              [] op = "get_demanda" -> "demanda"
              [] op = "process_demanda" -> "process"
    /\ start \in Thresholds
    /\ end = <<2024, 3, 1>>
    /\ id_empresas = <<>>
    /\ requests = <<>>
    /\ result = NoResult
    /\ response \in IF op = "process_demanda"
                    THEN {[status_code |-> 200, body |-> b] : b \in DemandaBodies}
                    ELSE {<<>>}

NextFetch ==
    \/ PostEmpresas
    \/ PostExportar
    \/ GetDescargar
    \/ PostDemanda
    \/ ProcessDemanda

SpecFetch == InitFetch /\ [][NextFetch]_vars

(***************************************************************************)
(* C7: _raise_for_status, as get_medidores_generacion applies it to the    *)
(* response of its latest request: it raises an error that names a client  *)
(* error exactly for a status in 400..499 and one that names a server      *)
(* error exactly for 500..599, each with the status code, the reason and   *)
(* the url of the request, and raises nothing for every other status.      *)
(***************************************************************************)
C7_RaiseForStatus ==
    (op = "medidores" /\ requests # <<>>) =>
        LET r == requests[Len(requests)]
        IN  /\ r.status \in 400..499 =>
                 /\ pc = "raised" /\ result.kind = "HTTPError"
                 /\ result.value = <<r.status, "Client Error", r.reason, r.url>>
            /\ r.status \in 500..599 =>
                 /\ pc = "raised" /\ result.kind = "HTTPError"
                 /\ result.value = <<r.status, "Server Error", r.reason, r.url>>
            /\ r.status \notin 400..599 => result.kind # "HTTPError"

\* statuses 399 and 600 passed, then 499 raised the client error
C7_Witness ==
    /\ op = "medidores" /\ Len(requests) = 3
    /\ requests[1].status = 399 /\ requests[2].status = 600
    /\ requests[3].status = 499 /\ requests[3].reason = "Gone"
    /\ result = [kind |-> "HTTPError",
                 value |-> <<499, "Client Error", "Gone", UrlDescargar>>]

(***************************************************************************)
(* C8: the executed-demand operations never raise.                         *)
(***************************************************************************)
Finished(o) == op = o /\ pc = "done"

\* the request was answered, with a status that is no error
Answered(r) == r.name = "response" /\ ~IsErrorStatus(r.status)

\* the body has a Fecha field and every Fecha has the form YYYY/MM/DD HH:MM
HasParsableFecha(body) ==
    /\ \E k \in 1..Len(body.Data) : body.Data[k].has_fecha
    /\ \A k \in 1..Len(body.Data) :
         body.Data[k].has_fecha => body.Data[k].Fecha \in {FechaYmd, FechaGap}

\* no Fecha is a time the clocks of Lima skipped
NoFechaInGap(body) ==
    \A k \in 1..Len(body.Data) :
        body.Data[k].has_fecha => body.Data[k].Fecha # FechaGap

NeverRaises ==
    op \in {"get_demanda", "process_demanda"} =>
        /\ pc # "raised"
        /\ result.kind \in {"none", "None", "Response", "DataFrame"}

GetDemandaNullOrResponse ==
    Finished("get_demanda") =>
        /\ result = None <=> ~Answered(requests[1])
        /\ result # None => result.kind = "Response"

\* C8 as claimed: get_demanda_ejecutado returns None exactly when the
\* request is not answered with a non-error status; process_demanda_ejecutado
\* returns None exactly when the body is no JSON, lacks Data or lacks a
\* parsable Fecha; neither raises
C8_AsClaimed ==
    /\ NeverRaises
    /\ GetDemandaNullOrResponse
    /\ Finished("process_demanda") =>
         /\ result = None <=>
              ~(response.body.json /\ response.body.has_data
                    /\ HasParsableFecha(response.body))
         /\ result # None => result.kind = "DataFrame"

\* C8 amended: process_demanda_ejecutado also returns None when a Fecha is
\* a wall-clock time that does not exist (or is repeated) in America/Lima,
\* such as 1994/01/01 00:30; it returns its frame in every other case
C8_SoftFailure ==
    /\ NeverRaises
    /\ GetDemandaNullOrResponse
    /\ Finished("process_demanda") =>
         /\ result = None <=>
              ~(response.body.json /\ response.body.has_data
                    /\ HasParsableFecha(response.body)
                    /\ NoFechaInGap(response.body))
         /\ result # None => result.kind = "DataFrame"

\* a body whose two Fecha values parse, one of them in the skipped hour
C8_Witness ==
    /\ Finished("process_demanda")
    /\ response.body.json /\ response.body.has_data
    /\ response.body.Data = <<[has_fecha |-> TRUE, Fecha |-> FechaYmd],
                              [has_fecha |-> TRUE, Fecha |-> FechaGap]>>
    /\ result = None

(***************************************************************************)
(* C9: get_medidores_generacion issues POST empresas, POST exportar, GET   *)
(* descargar in this order, each after the one before it got a status that *)
(* is no error; a 4xx or 5xx status is raised to the caller as an error,    *)
(* with no later request and no frame.                                     *)
(***************************************************************************)
MedidoresOrder ==
    <<<<"empresas", "POST", UrlEmpresas>>, <<"exportar", "POST", UrlExportar>>,
      <<"descargar", "GET", UrlDescargar>>>>

\* C9: the requests follow MedidoresOrder; only the last can have failed,
\* and then the operation has raised and returned no frame
C9_ThreeRequestsInOrder ==
    op = "medidores" =>
        /\ Len(requests) <= 3
        /\ \A i \in 1..Len(requests) :
             /\ <<requests[i].name, requests[i].method, requests[i].url>>
                    = MedidoresOrder[i]
             /\ i < Len(requests) => ~IsErrorStatus(requests[i].status)
             /\ IsErrorStatus(requests[i].status) =>
                    /\ i = Len(requests)
                    /\ pc = "raised"
                    /\ result.kind = "HTTPError"
        /\ result.kind = "DataFrame" =>
             /\ Len(requests) = 3
             /\ ~IsErrorStatus(requests[3].status)

\* the export-preparation request failed: the download was never requested
C9_Witness ==
    /\ op = "medidores" /\ pc = "raised"
    /\ Len(requests) = 2
    /\ requests[2].status = 500
    /\ result.kind = "HTTPError"

====
